---- MODULE Spec2Model ----
(***************************************************************************)
(* badserv: an HTTP server that misbehaves on request.  The model covers   *)
(* the two identifier counters (main.go:61, main.go:90), the ConnContext   *)
(* hook, service.ServeHTTP with its five branches, closeConn, slowWrite    *)
(* and the slogMeta log decorator.  net/http is the environment: it        *)
(* accepts connections, dispatches the requests of one HTTP/1.1 connection *)
(* one after the other, cancels the request context when the peer goes     *)
(* away and implements Hijack, http.Error and bufio.Writer.                *)
(* Text is a sequence of one-character strings, one per byte.              *)
(***************************************************************************)
EXTENDS Integers, Sequences, FiniteSets, TLC

\* ------------------------------------------------------------------ bounds

\* Connections the listener accepts in one run.
MaxConns == 2

\* Requests net/http dispatches in one run, over all connections.
MaxRequests == 3

Conns == 1..MaxConns

\* The connection the single-connection specification follows.
First == CHOOSE c \in Conns : \A d \in Conns : c <= d

\* ------------------------------------------------------- program constants

limeric ==
    << "I", "n", " ", "t", "h", "e", " ", "r", "e", "a", "l", "m", " ", "o", "f", " ",
       "r", "e", "q", "u", "e", "s", "t", "s", " ", "a", "n", "d", " ", "r", "e", "p",
       "l", "i", "e", "s", ",", "\n",
       "H", "T", "T", "P", " ", "w", "i", "t", "h", " ", "i", "t", "s", " ", "s", "t",
       "a", "t", "u", "s", " ", "d", "e", "n", "i", "e", "s", ".", "\n",
       "W", "i", "t", "h", " ", "a", " ", "4", "0", "4", " ", "f", "r", "o", "w", "n",
       ",", "\n",
       "I", "t", " ", "t", "u", "r", "n", "s", " ", "u", "s", "e", "r", "s", " ", "t",
       "o", " ", "c", "l", "o", "w", "n", "s", ",", "\n",
       "A", "s", " ", "t", "h", "e", "y", " ", "s", "e", "a", "r", "c", "h", " ", "f",
       "o", "r", " ", "t", "h", "e", " ", "p", "a", "g", "e", " ", "t", "h", "a", "t",
       " ", "b", "e", "l", "i", "e", "s", ".", "\n" >>

StatusLine ==
    << "H", "T", "T", "P", "/", "1", ".", "1", " ", "2", "0", "0", " ", "O", "K", "\r",
       "\n" >>

HostKey == << "H", "o", "s", "t", ":", " " >>

CRLF == << "\r", "\n" >>

ContentLengthKey ==
    << "C", "o", "n", "t", "e", "n", "t", "-", "L", "e", "n", "g", "t", "h", ":", " " >>

ContentTypeLine ==
    << "C", "o", "n", "t", "e", "n", "t", "-", "T", "y", "p", "e", ":", " ", "t", "e",
       "x", "t", "/", "p", "l", "a", "i", "n", "\r", "\n",
       "\r", "\n" >>

StatusOK == 200
StatusPartialContent == 206
StatusNotModified == 304
StatusBadRequest == 400
StatusRequestedRangeNotSatisfiable == 416
StatusInternalServerError == 500

\* --------------------------------------------------------- request inputs

\* Values of the action query parameter: the four the switch names and one
\* it does not.
Actions == {"", "hang", "close", "slow-write", "bogus"}

\* The actions answered through the ResponseWriter alone.
Plain == {"", "bogus"}

\* What http.ServeContent reads of a request: the method, the Range header
\* as the first and last offset it asks for (<< >>: no Range header) and
\* the If-None-Match header.
NoRange == << >>
PlainGet == [ method |-> "GET", range |-> NoRange, ifNoneMatch |-> "" ]
Requests ==
    { PlainGet,
      [ PlainGet EXCEPT !.method = "HEAD" ],
      [ PlainGet EXCEPT !.range = << 0, 0 >> ],
      [ PlainGet EXCEPT !.ifNoneMatch = "*" ] }

\* Values of req.Host.
Hosts == { << "a" >>, << "b", ".", "c" >> }

\* The errors closeConn and slowWrite wrap (lines 146, 166, 185), with the
\* cause the transport gave.
ErrHijack == "hijacking connection: feature not supported"
ErrWrite == "writing response: broken pipe"

\* The local `action` before line 113 has run.
Unread == "<unread>"

\* ------------------------------------------------------------------ state

VARIABLES
    connIDs,    \* main.go:61   connIDs := new(atomic.Int64)
    counter,    \* main.go:90   service.counter
    conn,       \* per connection: the net.Conn and its connection context
    rw,         \* per connection: the http.ResponseWriter of the current request
    h,          \* per connection: the frame of the running ServeHTTP call
    log,        \* per connection: records the current request has logged
    ids         \* per connection: request identifiers in dispatch order

vars == << connIDs, counter, conn, rw, h, log, ids >>

\* ------------------------------------------------------------ pure helpers

Digits == << "0", "1", "2", "3", "4", "5", "6", "7", "8", "9" >>

RECURSIVE Itoa(_)
\* strconv.Itoa for the non-negative values len() produces.
Itoa(n) ==
    IF n < 10 THEN << Digits[n + 1] >>
    ELSE Itoa(n \div 10) \o << Digits[(n % 10) + 1] >>

RECURSIVE writeStrs(_, _)
\* writeStrs appends every string to the writer, in order.
writeStrs(b, strs) ==
    IF strs = << >> THEN b
    ELSE writeStrs(b \o Head(strs), Tail(strs))

\* Faulty variant: Content-Length announces the length of the whole buffer.
ResponseCountsHeader(host) ==
    writeStrs(<< >>,
        << StatusLine,
           HostKey, host, CRLF,
           ContentLengthKey,
           Itoa(Len(StatusLine \o HostKey \o host \o CRLF) + Len(limeric)), CRLF,
           ContentTypeLine >>) \o limeric

\* The response slowWrite builds in resp (lines 153-160).
Response(host) ==
    writeStrs(<< >>,
        << StatusLine,
           HostKey, host, CRLF,
           ContentLengthKey, Itoa(Len(limeric)), CRLF,
           ContentTypeLine >>) \o limeric

\* slogMeta.Handle: a record gets request_id and conn_id when the context
\* carries them (0: the key is absent from the context).
Handle(ctx, msg, key, cause) ==
    [ msg        |-> msg,
      request_id |-> ctx.reqID,
      conn_id    |-> ctx.connID,
      key        |-> key,
      cause      |-> cause ]

\* http.Error through the ResponseWriter.  On a hijacked connection net/http
\* drops the header and the body; otherwise the first WriteHeader wins.
httpError(r, hijacked, msg, code) ==
    IF hijacked THEN [ r EXCEPT !.afterHijack = TRUE ]
    ELSE [ r EXCEPT !.status = IF r.status = 0 THEN code ELSE r.status,
                    !.body   = r.body \o << msg >> ]

\* Faulty variant: the document is announced with 200 and never copied out.
ServeContentNoBody(r, q) ==
    [ r EXCEPT !.status = IF r.status = 0 THEN StatusOK ELSE r.status ]

\* http.ServeContent of the document (line 118), with the modification time
\* time.Now() and no ETag: If-None-Match: * is answered 304 without a body,
\* a Range that starts inside the document 206 with that part of it, any
\* other request 200 with all of it; a HEAD request gets no body.
ServeContent(r, q) ==
    LET size  == Len(limeric)
        code  == IF q.ifNoneMatch = "*" THEN StatusNotModified
                 ELSE IF q.range = NoRange THEN StatusOK
                 ELSE IF q.range[1] >= size THEN StatusRequestedRangeNotSatisfiable
                 ELSE StatusPartialContent
        last  == IF q.range = NoRange THEN size - 1
                 ELSE IF q.range[2] >= size THEN size - 1 ELSE q.range[2]
        first == IF q.range = NoRange THEN 0 ELSE q.range[1]
        sent  == IF code = StatusNotModified \/ q.method = "HEAD" THEN << >>
                 ELSE IF code = StatusRequestedRangeNotSatisfiable
                 THEN << "invalid range: failed to overlap" >>
                 ELSE SubSeq(limeric, first + 1, last + 1)
    IN  [ r EXCEPT !.status = IF r.status = 0 THEN code ELSE r.status,
                   !.body   = r.body \o sent ]

NoResponse == [ status |-> 0, body |-> << >>, afterHijack |-> FALSE ]

NoFrame ==
    [ pc |-> "none", action |-> "", host |-> << >>,
      req |-> PlainGet, reqID |-> 0, errInput |-> "", act |-> Unread, err |-> "",
      resp |-> << >>, i |-> 0, buf |-> << >>, bufErr |-> FALSE,
      sleeps |-> 0, writes |-> 0, flushes |-> 0 ]

\* The context ServeHTTP builds on line 94, and the one req.Context() gives.
HandlerCtx(c) == [ connID |-> conn[c].id, reqID |-> h[c].reqID ]
RequestCtx(c) == [ connID |-> conn[c].id, reqID |-> 0 ]

Running(c) == h[c].pc \notin {"none", "idle", "gone"}

RECURSIVE Dispatched(_)
\* Requests dispatched so far on the connections in S.
Dispatched(S) ==
    IF S = {} THEN 0
    ELSE LET c == CHOOSE x \in S : TRUE
         IN  Len(ids[c]) + (IF h[c].pc = "serve" THEN 1 ELSE 0)
               + Dispatched(S \ {c})

\* ------------------------------------------------------------------- init

Init ==
    /\ connIDs = 0
    /\ counter = 0
    /\ conn = [ c \in Conns |->
                  [ st |-> "free", id |-> 0, hijacked |-> FALSE,
                    peerClosed |-> FALSE, done |-> FALSE, wire |-> << >> ] ]
    /\ rw = [ c \in Conns |-> NoResponse ]
    /\ h = [ c \in Conns |-> NoFrame ]
    /\ log = [ c \in Conns |-> << >> ]
    /\ ids = [ c \in Conns |-> << >> ]

\* ------------------------------------------------------ net/http: accept

\* Faulty variant: the counter is made anew for every call, so each call counts
\* from zero.
AtomicAddFresh(v) == 0 + 1

\* atomic.Int64.Add(1): the new value.  The counters of a bounded run stay
\* far below the 2^63 at which an int64 wraps.
AtomicAdd(v) == v + 1

\* The server accepts a connection and calls ConnContext (lines 67-71).
\* Server.Serve calls it from its one accept loop, before it starts the
\* connection's task: connection c is the c-th one accepted.
ConnContext(c) ==
    /\ conn[c].st = "free"
    /\ \A d \in Conns : d < c => conn[d].st # "free"
    /\ connIDs' = AtomicAdd(connIDs)
    /\ conn' = [ conn EXCEPT ![c].st = "open", ![c].id = connIDs' ]
    /\ h' = [ h EXCEPT ![c].pc = "idle" ]
    /\ UNCHANGED << counter, rw, log, ids >>

\* ---------------------------------------------------- net/http: requests

\* net/http reads the next request of an open connection and calls the
\* handler with a fresh ResponseWriter and request context.  The request
\* carries the action parameter; its Host, its body, its method and its
\* headers are drawn where the handler first reads them.
Dispatch(c, A) ==
    /\ h[c].pc = "idle"
    /\ conn[c].st = "open"
    /\ ~conn[c].hijacked
    /\ ~conn[c].peerClosed
    /\ Dispatched(Conns) < MaxRequests
    /\ \E a \in A :
         h' = [ h EXCEPT ![c] = [ NoFrame EXCEPT !.pc = "serve", !.action = a ] ]
    /\ rw' = [ rw EXCEPT ![c] = NoResponse ]
    /\ log' = [ log EXCEPT ![c] = << >> ]
    /\ conn' = [ conn EXCEPT ![c].done = FALSE ]
    /\ UNCHANGED << connIDs, counter, ids >>

\* The client closes its side of the connection.
ClientClose(c) ==
    /\ conn[c].st = "open"
    /\ ~conn[c].peerClosed
    /\ conn' = [ conn EXCEPT ![c].peerClosed = TRUE ]
    /\ UNCHANGED << connIDs, counter, rw, h, log, ids >>

\* net/http's background read sees the peer gone and cancels the context of
\* the running request.  A hijacked connection is no longer watched.
CancelCtx(c) ==
    /\ Running(c)
    /\ conn[c].peerClosed
    /\ ~conn[c].hijacked
    /\ ~conn[c].done
    /\ conn' = [ conn EXCEPT ![c].done = TRUE ]
    /\ UNCHANGED << connIDs, counter, rw, h, log, ids >>

\* ServeHTTP has returned and its frame is gone.  net/http finishes the
\* response, releases the request context, keeps a connection it still owns
\* for the next request and forgets a hijacked one.
Return(c) ==
    /\ h[c].pc = "ret"
    /\ h' = [ h EXCEPT ![c] = [ NoFrame EXCEPT !.pc =
                                  IF conn[c].hijacked THEN "gone" ELSE "idle" ] ]
    /\ rw' = [ rw EXCEPT ![c] = NoResponse ]
    /\ log' = [ log EXCEPT ![c] = << >> ]
    /\ conn' = [ conn EXCEPT ![c].done = FALSE ]
    /\ UNCHANGED << connIDs, counter, ids >>

\* net/http closes an idle connection whose peer is gone; its task ends.
ServerClose(c) ==
    /\ h[c].pc = "idle"
    /\ conn[c].st = "open"
    /\ conn[c].peerClosed
    /\ conn' = [ conn EXCEPT ![c].st = "closed" ]
    /\ h' = [ h EXCEPT ![c].pc = "gone" ]
    /\ UNCHANGED << connIDs, counter, rw, log, ids >>

\* What httputil.DumpRequest may return: the body is read from the peer.
DumpOutcomes == BOOLEAN

\* --------------------------------------------------------------- ServeHTTP

\* Faulty variant: the context gets the counter's value, and the counter stays.
ServeHTTPLoad(c) ==
    /\ h[c].pc = "serve"
    /\ h' = [ h EXCEPT ![c].reqID = counter, ![c].pc = "dump" ]
    /\ ids' = [ ids EXCEPT ![c] = Append(@, counter) ]
    /\ UNCHANGED << connIDs, counter, conn, rw, log >>

\* Faulty variant: the request identifier is taken from the connections' counter.
ServeHTTPConnIDs(c) ==
    /\ h[c].pc = "serve"
    /\ connIDs' = AtomicAdd(connIDs)
    /\ h' = [ h EXCEPT ![c].reqID = connIDs', ![c].pc = "dump" ]
    /\ ids' = [ ids EXCEPT ![c] = Append(@, connIDs') ]
    /\ UNCHANGED << counter, conn, rw, log >>

\* Faulty variant: the handler goes on to dump the request with no identifier
\* in its context.
ServeHTTPUnassigned(c) ==
    /\ h[c].pc = "serve"
    /\ h' = [ h EXCEPT ![c].pc = "dump" ]
    /\ UNCHANGED << connIDs, counter, conn, rw, log, ids >>

\* Line 94: the request identifier goes into the handler's context.
ServeHTTP(c) ==
    /\ h[c].pc = "serve"
    /\ counter' = AtomicAdd(counter)
    /\ h' = [ h EXCEPT ![c].reqID = counter', ![c].pc = "dump" ]
    /\ ids' = [ ids EXCEPT ![c] = Append(@, counter') ]
    /\ UNCHANGED << connIDs, conn, rw, log >>

\* Faulty variant: the error branch answers 400 and does not return.
DumpRequestNoReturn(c) ==
    /\ h[c].pc = "dump"
    /\ \E ok \in DumpOutcomes :
       IF ~ok
       THEN /\ log' = [ log EXCEPT ![c] =
                          Append(@, Handle(HandlerCtx(c), "dumping request",
                                           "!BADKEY", "read body")) ]
            /\ rw' = [ rw EXCEPT ![c] =
                         httpError(@, conn[c].hijacked, "bad request: read body",
                                   StatusBadRequest) ]
            /\ h' = [ h EXCEPT ![c].errInput = "read body", ![c].pc = "query" ]
       ELSE /\ h' = [ h EXCEPT ![c].pc = "query" ]
            /\ UNCHANGED << rw, log >>
    /\ UNCHANGED << connIDs, counter, conn, ids >>

\* Lines 96-101: httputil.DumpRequest; on an error log it, answer 400, return.
DumpRequest(c) ==
    /\ h[c].pc = "dump"
    /\ \E ok \in DumpOutcomes :
       IF ~ok
       THEN /\ log' = [ log EXCEPT ![c] =
                          Append(@, Handle(HandlerCtx(c), "dumping request",
                                           "!BADKEY", "read body")) ]
            /\ rw' = [ rw EXCEPT ![c] =
                         httpError(@, conn[c].hijacked, "bad request: read body",
                                   StatusBadRequest) ]
            /\ h' = [ h EXCEPT ![c].errInput = "read body", ![c].pc = "ret" ]
       ELSE /\ h' = [ h EXCEPT ![c].pc = "query" ]
            /\ UNCHANGED << rw, log >>
    /\ UNCHANGED << connIDs, counter, conn, ids >>

\* Lines 103-114: print the dump, read the action parameter, log it.
ReadAction(c) ==
    /\ h[c].pc = "query"
    /\ h' = [ h EXCEPT ![c].act = h[c].action, ![c].pc = "switch" ]
    /\ log' = [ log EXCEPT ![c] =
                  Append(@, Handle(HandlerCtx(c), "handling", "action", h[c].action)) ]
    /\ UNCHANGED << connIDs, counter, conn, rw, ids >>

\* Faulty variant: an action the switch does not name is taken for close.
SwitchDefaultClose(c, R) ==
    /\ h[c].pc = "switch"
    /\ CASE h[c].act = "" ->
              (\E q \in R :
                 /\ rw' = [ rw EXCEPT ![c] = ServeContent(@, q) ]
                 /\ h' = [ h EXCEPT ![c].req = q, ![c].pc = "ret" ])
         [] h[c].act = "hang" ->
              /\ h' = [ h EXCEPT ![c].pc = "hang" ]
              /\ UNCHANGED rw
         [] h[c].act = "slow-write" ->
              /\ h' = [ h EXCEPT ![c].pc = "slowWrite" ]
              /\ UNCHANGED rw
         [] OTHER ->
              /\ h' = [ h EXCEPT ![c].pc = "closeConn" ]
              /\ UNCHANGED rw
    /\ UNCHANGED << connIDs, counter, conn, log, ids >>

\* Faulty variant: the switch has no case for hang, which falls to the default.
SwitchNoHang(c, R) ==
    /\ h[c].pc = "switch"
    /\ CASE h[c].act = "" ->
              (\E q \in R :
                 /\ rw' = [ rw EXCEPT ![c] = ServeContent(@, q) ]
                 /\ h' = [ h EXCEPT ![c].req = q, ![c].pc = "ret" ])
         [] h[c].act = "close" ->
              /\ h' = [ h EXCEPT ![c].pc = "closeConn" ]
              /\ UNCHANGED rw
         [] h[c].act = "slow-write" ->
              /\ h' = [ h EXCEPT ![c].pc = "slowWrite" ]
              /\ UNCHANGED rw
         [] OTHER ->
              /\ rw' = [ rw EXCEPT ![c] =
                           httpError(@, conn[c].hijacked, "unknown action",
                                     StatusBadRequest) ]
              /\ h' = [ h EXCEPT ![c].pc = "ret" ]
    /\ UNCHANGED << connIDs, counter, conn, log, ids >>

\* Lines 116-135: the switch, for a request whose method and headers are
\* drawn from R.  The default document and the unknown action are answered
\* here; hang, close and slow-write continue below.
Switch(c, R) ==
    /\ h[c].pc = "switch"
    /\ CASE h[c].act = "" ->
              (\E q \in R :
                 /\ rw' = [ rw EXCEPT ![c] = ServeContent(@, q) ]
                 /\ h' = [ h EXCEPT ![c].req = q, ![c].pc = "ret" ])
         [] h[c].act = "hang" ->
              /\ h' = [ h EXCEPT ![c].pc = "hang" ]
              /\ UNCHANGED rw
         [] h[c].act = "close" ->
              /\ h' = [ h EXCEPT ![c].pc = "closeConn" ]
              /\ UNCHANGED rw
         [] h[c].act = "slow-write" ->
              /\ h' = [ h EXCEPT ![c].pc = "slowWrite" ]
              /\ UNCHANGED rw
         [] OTHER ->
              /\ rw' = [ rw EXCEPT ![c] =
                           httpError(@, conn[c].hijacked, "unknown action",
                                     StatusBadRequest) ]
              /\ h' = [ h EXCEPT ![c].pc = "ret" ]
    /\ UNCHANGED << connIDs, counter, conn, log, ids >>

\* Faulty variant: the branch returns without waiting for the context.
HangNoWait(c) ==
    /\ h[c].pc = "hang"
    /\ h' = [ h EXCEPT ![c].pc = "ret" ]
    /\ UNCHANGED << connIDs, counter, conn, rw, log, ids >>

\* Lines 119-121: <-ctx.Done(), then return.
Hang(c) ==
    /\ h[c].pc = "hang"
    /\ conn[c].done
    /\ h' = [ h EXCEPT ![c].pc = "ret" ]
    /\ UNCHANGED << connIDs, counter, conn, rw, log, ids >>

\* ------------------------------------------------- net/http: connections

\* What ResponseController.Hijack may return: an error when the connection
\* is already hijacked, either outcome otherwise (a transport need not
\* support it).
HijackOutcomes(k) == IF k.hijacked THEN {FALSE} ELSE {TRUE, FALSE}

\* What a write to the transport may return: an error once the server has
\* closed the connection, either outcome once the peer is gone.
WriteOutcomes(k) ==
    IF k.st # "open" THEN {FALSE}
    ELSE IF k.peerClosed THEN {TRUE, FALSE}
    ELSE {TRUE}

\* --------------------------------------------------------------- closeConn

\* Lines 181-186: Hijack, and the wrapped error when it is refused.
closeConn(c) ==
    /\ h[c].pc = "closeConn"
    /\ \E ok \in HijackOutcomes(conn[c]) :
       IF ok
       THEN /\ conn' = [ conn EXCEPT ![c].hijacked = TRUE ]
            /\ h' = [ h EXCEPT ![c].pc = "connClose" ]
       ELSE /\ h' = [ h EXCEPT ![c].err = ErrHijack,
                               ![c].pc = "closeErr" ]
            /\ UNCHANGED conn
    /\ UNCHANGED << connIDs, counter, rw, log, ids >>

\* Faulty variant: after conn.Close() the function starts over with Hijack.
closeConnCloseAgain(c) ==
    /\ h[c].pc = "connClose"
    /\ conn' = [ conn EXCEPT ![c].st = "closed" ]
    /\ h' = [ h EXCEPT ![c].pc = "closeConn" ]
    /\ UNCHANGED << connIDs, counter, rw, log, ids >>

\* Lines 188-190: _ = conn.Close(); return nil.
closeConnClose(c) ==
    /\ h[c].pc = "connClose"
    /\ conn' = [ conn EXCEPT ![c].st = "closed" ]
    /\ h' = [ h EXCEPT ![c].pc = "closeErr" ]
    /\ UNCHANGED << connIDs, counter, rw, log, ids >>

\* Faulty variant: the test of closeConn's error is inverted.
closeResultInverted(c) ==
    /\ h[c].pc = "closeErr"
    /\ IF h[c].err = ""
       THEN /\ log' = [ log EXCEPT ![c] =
                          Append(@, Handle(HandlerCtx(c), "closing connection",
                                           "error", h[c].err)) ]
            /\ rw' = [ rw EXCEPT ![c] =
                         httpError(@, conn[c].hijacked,
                                   "can't properly close connection",
                                   StatusInternalServerError) ]
       ELSE UNCHANGED << rw, log >>
    /\ h' = [ h EXCEPT ![c].pc = "ret" ]
    /\ UNCHANGED << connIDs, counter, conn, ids >>

\* Lines 123-127: the error of closeConn is logged and answered with 500.
closeResult(c) ==
    /\ h[c].pc = "closeErr"
    /\ IF h[c].err # ""
       THEN /\ log' = [ log EXCEPT ![c] =
                          Append(@, Handle(HandlerCtx(c), "closing connection",
                                           "error", h[c].err)) ]
            /\ rw' = [ rw EXCEPT ![c] =
                         httpError(@, conn[c].hijacked,
                                   "can't properly close connection",
                                   StatusInternalServerError) ]
       ELSE UNCHANGED << rw, log >>
    /\ h' = [ h EXCEPT ![c].pc = "ret" ]
    /\ UNCHANGED << connIDs, counter, conn, ids >>

\* --------------------------------------------------------------- slowWrite

\* Faulty variant: the first byte is written at once; the loop sleeps after a
\* byte, not before it.
slowWriteNoFirstSleep(c) ==
    /\ h[c].pc = "slowWrite"
    /\ \E ok \in HijackOutcomes(conn[c]) :
       IF ok
       THEN /\ conn' = [ conn EXCEPT ![c].hijacked = TRUE ]
            /\ log' = [ log EXCEPT ![c] =
                          @ \o << Handle(RequestCtx(c), "hijacking connection", "", ""),
                                  Handle(RequestCtx(c), "writing slow response", "", "") >> ]
            /\ \E host \in Hosts :
                 h' = [ h EXCEPT ![c].host = host,
                                 ![c].resp = Response(host),
                                 ![c].i = 1,
                                 ![c].pc = IF Response(host) = << >>
                                           THEN "deferClose" ELSE "write" ]
       ELSE /\ log' = [ log EXCEPT ![c] =
                          Append(@, Handle(RequestCtx(c), "hijacking connection", "", "")) ]
            /\ h' = [ h EXCEPT ![c].err = ErrHijack,
                               ![c].pc = "slowErr" ]
            /\ UNCHANGED conn
    /\ UNCHANGED << connIDs, counter, rw, ids >>

\* Lines 139-160: log, Hijack, defer conn.Close(), log, build the response.
\* Both records are logged with req.Context().
slowWrite(c) ==
    /\ h[c].pc = "slowWrite"
    /\ \E ok \in HijackOutcomes(conn[c]) :
       IF ok
       THEN /\ conn' = [ conn EXCEPT ![c].hijacked = TRUE ]
            /\ log' = [ log EXCEPT ![c] =
                          @ \o << Handle(RequestCtx(c), "hijacking connection", "", ""),
                                  Handle(RequestCtx(c), "writing slow response", "", "") >> ]
            /\ \E host \in Hosts :
                 h' = [ h EXCEPT ![c].host = host,
                                 ![c].resp = Response(host),
                                 ![c].i = 1,
                                 ![c].pc = IF Response(host) = << >>
                                           THEN "deferClose" ELSE "sleep" ]
       ELSE /\ log' = [ log EXCEPT ![c] =
                          Append(@, Handle(RequestCtx(c), "hijacking connection", "", "")) ]
            /\ h' = [ h EXCEPT ![c].err = ErrHijack,
                               ![c].pc = "slowErr" ]
            /\ UNCHANGED conn
    /\ UNCHANGED << connIDs, counter, rw, ids >>

\* Faulty variant: the pause before a byte lasts until the request's context is
\* cancelled.
slowWriteSleepUntilDone(c) ==
    /\ h[c].pc = "sleep"
    /\ conn[c].done
    /\ h' = [ h EXCEPT ![c].sleeps = @ + 1, ![c].pc = "write" ]
    /\ UNCHANGED << connIDs, counter, conn, rw, log, ids >>

\* Line 163: time.Sleep(100 * time.Millisecond).
slowWriteSleep(c) ==
    /\ h[c].pc = "sleep"
    /\ h' = [ h EXCEPT ![c].sleeps = @ + 1, ![c].pc = "write" ]
    /\ UNCHANGED << connIDs, counter, conn, rw, log, ids >>

\* Lines 164-167: w.Write([]byte{b}).  bufio.Writer returns the error of an
\* earlier failed flush and otherwise buffers the byte.
slowWriteByte(c) ==
    /\ h[c].pc = "write"
    /\ IF h[c].bufErr
       THEN h' = [ h EXCEPT ![c].err = ErrWrite,
                            ![c].pc = "deferClose" ]
       ELSE h' = [ h EXCEPT ![c].buf = Append(@, h[c].resp[h[c].i]),
                            ![c].writes = @ + 1,
                            ![c].pc = "flush" ]
    /\ UNCHANGED << connIDs, counter, conn, rw, log, ids >>

\* Faulty variant: the loop does not flush; the writer keeps the bytes.
slowWriteNoFlush(c) ==
    /\ h[c].pc = "flush"
    /\ h' = [ h EXCEPT ![c].i = @ + 1,
                       ![c].pc = IF h[c].i + 1 > Len(h[c].resp)
                                 THEN "deferClose" ELSE "sleep" ]
    /\ UNCHANGED << connIDs, counter, conn, rw, log, ids >>

\* Line 168: _ = w.Flush(), then the next byte or return nil.  A failed
\* flush leaves the bytes in the buffer and the error in the writer.
slowWriteFlush(c) ==
    /\ h[c].pc = "flush"
    /\ \E ok \in WriteOutcomes(conn[c]) :
         /\ conn' = [ conn EXCEPT ![c].wire = IF ok THEN @ \o h[c].buf ELSE @ ]
         /\ h' = [ h EXCEPT ![c].buf = IF ok THEN << >> ELSE @,
                            ![c].bufErr = ~ok,
                            ![c].flushes = @ + 1,
                            ![c].i = @ + 1,
                            ![c].pc = IF h[c].i + 1 > Len(h[c].resp)
                                      THEN "deferClose" ELSE "sleep" ]
    /\ UNCHANGED << connIDs, counter, rw, log, ids >>

\* Faulty variant: slowWrite returns without the deferred conn.Close().
slowWriteNoClose(c) ==
    /\ h[c].pc = "deferClose"
    /\ h' = [ h EXCEPT ![c].pc = "slowErr" ]
    /\ UNCHANGED << connIDs, counter, conn, rw, log, ids >>

\* Line 149: the deferred conn.Close() runs as slowWrite returns.
slowWriteClose(c) ==
    /\ h[c].pc = "deferClose"
    /\ conn' = [ conn EXCEPT ![c].st = "closed" ]
    /\ h' = [ h EXCEPT ![c].pc = "slowErr" ]
    /\ UNCHANGED << connIDs, counter, rw, log, ids >>

\* Faulty variant: the error of slowWrite is logged and not answered.
slowResultLogOnly(c) ==
    /\ h[c].pc = "slowErr"
    /\ IF h[c].err # ""
       THEN log' = [ log EXCEPT ![c] =
                       Append(@, Handle(HandlerCtx(c), "writing response",
                                        "error", h[c].err)) ]
       ELSE UNCHANGED log
    /\ h' = [ h EXCEPT ![c].pc = "ret" ]
    /\ UNCHANGED << connIDs, counter, conn, rw, ids >>

\* Lines 129-132: the error of slowWrite is logged and answered with 500.
slowResult(c) ==
    /\ h[c].pc = "slowErr"
    /\ IF h[c].err # ""
       THEN /\ log' = [ log EXCEPT ![c] =
                          Append(@, Handle(HandlerCtx(c), "writing response",
                                           "error", h[c].err)) ]
            /\ rw' = [ rw EXCEPT ![c] =
                         httpError(@, conn[c].hijacked,
                                   "can't properly write response",
                                   StatusInternalServerError) ]
       ELSE UNCHANGED << rw, log >>
    /\ h' = [ h EXCEPT ![c].pc = "ret" ]
    /\ UNCHANGED << connIDs, counter, conn, ids >>

\* ------------------------------------------------------------ next, specs

\* The steps of connection c when its client draws the action parameter
\* from the set A and the rest of the request from the set R: net/http and
\* the part of ServeHTTP every request runs.
Serve(c, A, R) ==
    \/ ConnContext(c)
    \/ Dispatch(c, A)
    \/ ClientClose(c)
    \/ Return(c)
    \/ ServerClose(c)
    \/ ServeHTTP(c)
    \/ DumpRequest(c)
    \/ ReadAction(c)
    \/ Switch(c, R)

\* The steps of the hang and close branches on connection c, with the
\* cancellation only hang waits for.
Fault(c) ==
    \/ CancelCtx(c)
    \/ Hang(c)
    \/ closeConn(c)
    \/ closeConnClose(c)
    \/ closeResult(c)

\* The steps of slowWrite on connection c.
Stream(c) ==
    \/ slowWrite(c)
    \/ slowWriteSleep(c)
    \/ slowWriteByte(c)
    \/ slowWriteFlush(c)
    \/ slowWriteClose(c)
    \/ slowResult(c)

\* One connection whose client asks for every action: each branch of the
\* handler in full, the transmission byte by byte.
Next == Serve(First, Actions, Requests) \/ Fault(First) \/ Stream(First)

Spec == Init /\ [][Next]_vars

\* MaxConns connections served concurrently, their clients asking with
\* plain GET requests for the actions that touch nothing but the
\* ResponseWriter and wait for nothing:
\* the two counters under every interleaving of accepts, dispatches and
\* handler steps.
NextConc == \E c \in Conns : Serve(c, Plain, {PlainGet})

SpecConc == Init /\ [][NextConc]_vars

\* Spec with the scheduling the runtime gives a blocked handler: net/http's
\* background read does see a closed peer, and a handler that can run does.
FairSpec ==
    /\ Spec
    /\ WF_vars(CancelCtx(First))
    /\ WF_vars(Hang(First))
    /\ WF_vars(Return(First))

\* Spec with the scheduling the runtime gives slowWrite: the sleep of line
\* 163 ends, a write to the connection returns, and a handler that can take
\* its next step does.  Nothing is assumed of cancellation.
StreamSpec == Spec /\ WF_vars(Stream(First))

\* ------------------------------------------------------------ properties

Accepted == { c \in Conns : conn[c].st # "free" }

\* C1: the connections accepted so far, in whatever order their requests
\* ran, hold pairwise distinct connection identifiers, one each: as many
\* identifiers as connections, none of them missing.
C1_ConnIDsDistinct ==
    /\ \A c \in Accepted : conn[c].id >= 1
    /\ \A c, d \in Accepted : c # d => conn[c].id # conn[d].id
    /\ Cardinality({ conn[c].id : c \in Accepted }) = Cardinality(Accepted)

\* Two connections are open and both have requests behind them.
C1_Witness ==
    \E c, d \in Accepted : c # d /\ ids[c] # << >> /\ ids[d] # << >>

\* C2: on every connection the request identifiers, in the order the
\* requests were dispatched, are strictly increasing, whatever was dispatched
\* on the other connections in between.
C2_RequestIDsIncrease ==
    \A c \in Conns :
        \A i, j \in 1..Len(ids[c]) : i < j => ids[c][i] < ids[c][j]

\* A connection has had two requests, with a request of another connection
\* dispatched between them.
C2_Witness ==
    \E c, d \in Conns :
        /\ c # d
        /\ Len(ids[c]) >= 2
        /\ Len(ids[d]) >= 1
        /\ ids[c][1] < ids[d][1]
        /\ ids[d][1] < ids[c][2]

\* The requests of the action claims are those whose action the handler has
\* read on line 113: a request it could not dump never reaches the switch.

C4_HangEndsOnCancel ==
    /\ \A c \in Conns :
         (h[c].pc = "hang" /\ conn[c].peerClosed) ~> ~Running(c)
    /\ [][ \A c \in Conns :
             (h[c].pc = "hang" /\ h'[c].pc # "hang") => conn[c].done ]_vars

\* A hang handler has returned after the cancellation.
C4_Witness ==
    \E c \in Conns :
        h[c].act = "hang" /\ h[c].pc = "ret" /\ conn[c].done

HeaderEnd(w) ==
    LET ends == { k \in 4..Len(w) : SubSeq(w, k - 3, k) = CRLF \o CRLF }
    IN  IF ends = {} THEN 0
        ELSE CHOOSE k \in ends : \A j \in ends : k <= j

IsDecimal(ds) ==
    ds # << >> /\ \A k \in 1..Len(ds) : \E d \in 0..9 : Digits[d + 1] = ds[k]

RECURSIVE Atoi(_)
Atoi(ds) ==
    IF ds = << >> THEN 0
    ELSE 10 * Atoi(SubSeq(ds, 1, Len(ds) - 1))
           + (CHOOSE d \in 0..9 : Digits[d + 1] = ds[Len(ds)])

\* slowWrite has run its loop to the end with every write and flush accepted.
SlowWriteCompleted(c) ==
    /\ h[c].act = "slow-write"
    /\ conn[c].hijacked
    /\ h[c].pc \in {"deferClose", "slowErr", "ret"}
    /\ h[c].err = ""
    /\ ~h[c].bufErr

\* C6: a slow-write that ran to completion has put on the connection, in
\* this order, the status line, the Host line with the request's host, a
\* Content-Length line, the Content-Type line and the blank line, then the
\* document; the announced length is the number of body bytes, and they are
\* the document.
C6_SlowWriteResponse ==
    \A c \in Conns :
        SlowWriteCompleted(c) =>
            LET w      == conn[c].wire
                head   == StatusLine \o HostKey \o h[c].host \o CRLF
                            \o ContentLengthKey
                tail   == CRLF \o ContentTypeLine
                hend   == HeaderEnd(w)
                digits == SubSeq(w, Len(head) + 1, hend - Len(tail))
                body   == SubSeq(w, hend + 1, Len(w))
            IN  /\ hend > Len(head) + Len(tail)
                /\ SubSeq(w, 1, Len(head)) = head
                /\ SubSeq(w, hend - Len(tail) + 1, hend) = tail
                /\ IsDecimal(digits)
                /\ Atoi(digits) = Len(body)
                /\ Atoi(digits) = Len(limeric)
                /\ body = limeric

\* A slow-write for the three-byte host has returned after a full
\* transmission.
C6_Witness ==
    \E c \in Conns :
        /\ SlowWriteCompleted(c)
        /\ h[c].pc = "ret"
        /\ Len(h[c].host) > 1
        /\ Len(conn[c].wire) > Len(limeric)

\* C7: in a slow-write every Write call hands over one byte, the writer
\* never holds more than one unflushed byte, every byte written has had its
\* flush before the next sleep starts, and the k-th byte is written after k
\* sleeps: a sleep lies between any two consecutive writes.
C7_OneByteAtATime ==
    \A c \in Conns :
        h[c].act = "slow-write" =>
            /\ Len(h[c].buf) <= 1
            /\ Len(conn[c].wire) + Len(h[c].buf) = h[c].writes
            /\ h[c].pc = "sleep" => h[c].flushes = h[c].writes
            /\ h[c].pc = "sleep" /\ ~h[c].bufErr => h[c].buf = << >>
            /\ h[c].pc = "write" => h[c].sleeps = h[c].writes + 1
            /\ h[c].pc = "flush" =>
                 /\ h[c].sleeps = h[c].writes
                 /\ h[c].writes = h[c].i
                 /\ h[c].buf # << >>
                 /\ h[c].buf[Len(h[c].buf)] = h[c].resp[h[c].i]

\* The last byte of the document has just been written, after as many
\* sleeps as the response has bytes, the first body byte having gone out
\* (document length - 1) sleeps earlier.
C7_Witness ==
    \E c \in Conns :
        /\ h[c].pc = "flush"
        /\ h[c].i = Len(h[c].resp)
        /\ h[c].sleeps = Len(h[c].resp)
        /\ Len(conn[c].wire) = Len(h[c].resp) - 1
        /\ h[c].sleeps - (Len(h[c].resp) - Len(limeric) + 1) = Len(limeric) - 1

\* C8: a request whose action the switch does not name is answered 400
\* through the ResponseWriter and touches the connection in no other way: no
\* hijack, no close, no byte written by hand, so that net/http keeps the
\* connection for the next request.
C8_UnknownAction ==
    \A c \in Conns :
        h[c].act \notin {Unread, "", "hang", "close", "slow-write"} =>
            /\ ~conn[c].hijacked
            /\ conn[c].st = "open"
            /\ conn[c].wire = << >>
            /\ ~rw[c].afterHijack
            /\ h[c].pc \in {"switch", "ret"}
            /\ h[c].pc = "ret" =>
                 /\ rw[c].status = StatusBadRequest
                 /\ rw[c].body = << "unknown action" >>

\* An unknown action has been answered on a connection that had a request
\* before it.
C8_Witness ==
    \E c \in Conns :
        /\ h[c].act = "bogus"
        /\ h[c].pc = "ret"
        /\ rw[c].status = StatusBadRequest
        /\ Len(ids[c]) >= 2

\* C9: when the request cannot be dumped the handler has answered 400 and
\* returned with the action parameter unread, whatever its value: nothing
\* hijacked, closed or written by hand, no document served, nothing logged
\* past the dump error.
C9_DumpErrorReturns ==
    \A c \in Conns :
        h[c].errInput # "" =>
            /\ h[c].pc = "ret"
            /\ h[c].act = Unread
            /\ rw[c].status = StatusBadRequest
            /\ rw[c].body = << "bad request: read body" >>
            /\ ~rw[c].afterHijack
            /\ ~conn[c].hijacked
            /\ conn[c].st = "open"
            /\ conn[c].wire = << >>
            /\ Len(log[c]) = 1
            /\ log[c][1].msg = "dumping request"

\* The dump has failed for a request that asks for slow-write.
C9_Witness ==
    \E c \in Conns :
        h[c].errInput # "" /\ h[c].action = "slow-write" /\ h[c].pc = "ret"

\* C10: when Hijack is refused in close or slow-write the handler leaves the
\* connection alone, not hijacked, not closed, no byte written by hand, and
\* by its return has logged the error with its cause and answered 500
\* through the ResponseWriter.
C10_HijackRefused ==
    \A c \in Conns :
        (h[c].act \in {"close", "slow-write"} /\ h[c].err = ErrHijack) =>
            /\ ~conn[c].hijacked
            /\ conn[c].st = "open"
            /\ conn[c].wire = << >>
            /\ h[c].buf = << >>
            /\ h[c].pc \in {"closeErr", "slowErr", "ret"}
            /\ h[c].pc = "ret" =>
                 /\ rw[c].status = StatusInternalServerError
                 /\ rw[c].body # << >>
                 /\ ~rw[c].afterHijack
                 /\ log[c] # << >>
                 /\ log[c][Len(log[c])].key = "error"
                 /\ log[c][Len(log[c])].cause = ErrHijack

\* A slow-write whose Hijack was refused has returned with its 500.
C10_Witness ==
    \E c \in Conns :
        /\ h[c].act = "slow-write"
        /\ h[c].err = ErrHijack
        /\ h[c].pc = "ret"
        /\ rw[c].status = StatusInternalServerError

\* The default document has been served for the request on connection c.
DefaultServed(c) == h[c].act = "" /\ h[c].pc = "ret"

C12_NoResponseAfterHijack ==
    \A c \in Conns :
        conn[c].hijacked =>
            /\ ~rw[c].afterHijack
            /\ rw[c].status = 0
            /\ rw[c].body = << >>

\* The log of the request on connection c holds a record with message m.
Logged(c, m) == \E k \in 1..Len(log[c]) : log[c][k].msg = m

\* C13: a byte of slowWrite whose transmission failed is the last one the
\* handler wrote, and by the time the handler returns the failure is in
\* the log, whichever byte it was, the last one included.
C13_WriteFailureReported ==
    \A c \in Conns :
        h[c].act = "slow-write" /\ h[c].bufErr =>
            /\ h[c].writes = h[c].i - 1
            /\ Len(conn[c].wire) < h[c].writes
            /\ h[c].pc = "ret" => Logged(c, "writing response")

\* C14: every record logged while a request is handled, the two records of
\* slowWrite included, carries the request identifier of that request and
\* the connection identifier of its connection.
C14_RecordsCarryIDs ==
    \A c \in Conns :
        \A k \in 1..Len(log[c]) :
            /\ h[c].reqID >= 1
            /\ conn[c].id >= 1
            /\ log[c][k].request_id = h[c].reqID
            /\ log[c][k].conn_id = conn[c].id

RECURSIVE Identified(_)
\* Requests on the connections in S that have taken their identifier.
Identified(S) ==
    IF S = {} THEN 0
    ELSE LET c == CHOOSE x \in S : TRUE
         IN  Len(ids[c]) + Identified(S \ {c})

\* The request identifiers handed out on any connection.
RequestIDs == UNION { { ids[c][k] : k \in 1..Len(ids[c]) } : c \in Conns }

\* The counters count what they should and no identifier is handed out twice.
CountersExact ==
    /\ connIDs = Cardinality(Accepted)
    /\ counter = Identified(Conns)
    /\ RequestIDs = 1..counter
    /\ \A c, d \in Conns :
         \A j \in 1..Len(ids[c]), k \in 1..Len(ids[d]) :
            ids[c][j] = ids[d][k] => c = d /\ j = k

\* A step that moves one counter leaves the other alone and adds one.
CountersApart ==
    /\ connIDs' # connIDs => counter' = counter /\ connIDs' = connIDs + 1
    /\ counter' # counter => connIDs' = connIDs /\ counter' = counter + 1
    /\ (\E c \in Conns : conn[c].st = "free" /\ conn'[c].st # "free")
          => connIDs' = connIDs + 1
    /\ (\E c \in Conns : h[c].pc = "serve" /\ h'[c].pc # "serve")
          => counter' = counter + 1

PastLine94(c) == Running(c) /\ h[c].pc # "serve"

\* Identifiers are there before anything that must come after them.
IDsFirst ==
    \A c \in Conns :
        /\ h[c].pc # "none" \/ ids[c] # << >> => conn[c].id >= 1
        /\ conn[c].st = "free" => conn[c].id = 0 /\ h[c].pc = "none"
        /\ PastLine94(c) =>
               h[c].reqID >= 1 /\ h[c].reqID = ids[c][Len(ids[c])]
        /\ h[c].pc = "serve" =>
               /\ h[c].reqID = 0
               /\ h[c].act = Unread
               /\ log[c] = << >>
               /\ rw[c] = NoResponse
        /\ ( \/ h[c].act # Unread
             \/ h[c].errInput # ""
             \/ log[c] # << >>
             \/ rw[c] # NoResponse ) => h[c].reqID >= 1

\* An identifier, once assigned, stays: a connection keeps its own for
\* good, a request its own until the handler has returned.
IDsOnce ==
    \A c \in Conns :
        /\ conn[c].id # 0 => conn'[c].id = conn[c].id
        /\ conn'[c].id # conn[c].id => ids[c] = << >> /\ h[c].pc = "none"
        /\ h[c].reqID # 0 /\ h[c].pc # "ret" => h'[c].reqID = h[c].reqID
        /\ h[c].reqID = 0 /\ h'[c].reqID # 0 =>
               h[c].pc = "serve" /\ h'[c].pc = "dump"
        /\ Len(ids'[c]) <= Len(ids[c]) + 1
        /\ PastLine94(c) => ids'[c] = ids[c]

\* C16: a connection gets its identifier once, before any request on it
\* gets one; a request gets its identifier once, before the handler dumps
\* the request, reads the action parameter or runs any action.
C16_IDsAssignedFirst == []IDsFirst /\ [][IDsOnce]_vars

C16_Witness ==
    /\ conn[First].id >= 1
    /\ Len(ids[First]) >= 2
    /\ h[First].pc = "switch"
    /\ h[First].act # Unread
    /\ h[First].reqID = ids[First][2]

\* The handler on connection c is about to call Hijack.
AtHijack(c) == h[c].pc \in {"closeConn", "slowWrite"}

\* Who holds a hijacked connection, and who may still ask for one.
HijackHolders ==
    \A c \in Conns :
        /\ AtHijack(c) => ~conn[c].hijacked
        /\ h[c].pc = "closeConn" => h[c].act = "close"
        /\ h[c].pc = "slowWrite" => h[c].act = "slow-write"
        /\ conn[c].hijacked =>
               \/ h[c].pc = "gone"
               \/ Running(c) /\ h[c].act \in {"close", "slow-write"}
        /\ h[c].pc \in {"idle", "serve"} => ~conn[c].hijacked

\* A hijack is taken by the Hijack call of close or slow-write, is never
\* given back, and no request starts on the connection after it.
HijackOnce ==
    \A c \in Conns :
        /\ conn[c].hijacked => conn'[c].hijacked
        /\ ~conn[c].hijacked /\ conn'[c].hijacked =>
               AtHijack(c) /\ h'[c].pc \in {"connClose", "sleep"}
        /\ conn[c].hijacked => h'[c].pc \notin {"idle", "serve"}
        /\ conn[c].hijacked => ids'[c] = ids[c]

\* C17: a connection is hijacked at most once over all its requests: a
\* request calls Hijack at most once, only for close and slow-write, and
\* after a successful Hijack no further request is dispatched on the
\* connection.
C17_HijackAtMostOnce == []HijackHolders /\ [][HijackOnce]_vars

C17_Witness ==
    /\ conn[First].hijacked
    /\ h[First].pc = "gone"
    /\ Len(ids[First]) >= 2
    /\ Dispatched(Conns) < MaxRequests

\* The handler on connection c is inside slowWrite or has come back from it.
InSlowWrite(c) == h[c].act = "slow-write" /\ h[c].pc # "switch"

\* The work of slowWrite is bounded by the length of the response: at most
\* one sleep and one write for each of its bytes, none after a failed write.
SlowWriteBounded ==
    \A c \in Conns :
        InSlowWrite(c) /\ conn[c].hijacked =>
            /\ Len(h[c].resp) = HeaderEnd(h[c].resp) + Len(limeric)
            /\ h[c].sleeps <= Len(h[c].resp)
            /\ h[c].writes <= Len(h[c].resp)
            /\ h[c].flushes <= Len(h[c].resp)
            /\ h[c].writes <= h[c].sleeps
            /\ h[c].sleeps <= h[c].i
            /\ h[c].i <= Len(h[c].resp) + 1
            /\ h[c].err # "" => h[c].pc \in {"deferClose", "slowErr", "ret"}
            /\ h[c].err # "" => h[c].writes < Len(h[c].resp)

\* C18: a slow-write handler ends on its own, with no cancellation: it
\* sleeps and writes at most once for each byte of the header block and the
\* document, stops at the first write that fails, and returns.
C18_SlowWriteTerminates ==
    /\ []SlowWriteBounded
    /\ \A c \in Conns : (h[c].pc = "slowWrite") ~> (h[c].pc = "ret")

C18_Witness ==
    /\ InSlowWrite(First)
    /\ conn[First].hijacked
    /\ h[First].resp # << >>
    /\ h[First].pc = "ret"
    /\ h[First].writes = Len(h[First].resp)
    /\ h[First].sleeps = Len(h[First].resp)
    /\ ~conn[First].done
    /\ ~conn[First].peerClosed

\* closeConn or slowWrite has returned to ServeHTTP on connection c, or
\* ServeHTTP itself has returned.
BackInServeHTTP(c) == h[c].pc \in {"closeErr", "slowErr", "ret", "gone"}

\* C19: a connection a handler has hijacked is closed by the time the
\* function that hijacked it returns, and so before the handler does: at
\* once in closeConn, after the last byte in a slowWrite that ran through,
\* after the first failed write in one that did not.
C19_HijackedConnClosed ==
    \A c \in Conns :
        /\ conn[c].hijacked /\ BackInServeHTTP(c) => conn[c].st = "closed"
        /\ conn[c].hijacked /\ conn[c].st # "closed" =>
               h[c].pc \in {"connClose", "sleep", "write", "flush", "deferClose"}

C19_Witness ==
    /\ conn[First].hijacked
    /\ h[First].act = "slow-write"
    /\ h[First].err = ErrWrite
    /\ h[First].pc = "ret"
    /\ conn[First].st = "closed"

\* Sleeps counted against the bytes written and sent so far.
SleepsLead ==
    \A c \in Conns :
        InSlowWrite(c) /\ conn[c].hijacked =>
            /\ h[c].writes <= h[c].sleeps
            /\ Len(conn[c].wire) <= h[c].sleeps
            /\ h[c].sleeps = 0 => conn[c].wire = << >> /\ h[c].buf = << >>
            /\ Len(conn[c].wire) > HeaderEnd(h[c].resp) =>
                   h[c].sleeps >= HeaderEnd(h[c].resp) + 1
            /\ SlowWriteCompleted(c) => h[c].sleeps = Len(h[c].resp)

\* The step that writes the k-th byte of the response is taken with exactly
\* k sleeps done, and it writes that byte.
SleepBeforeByte ==
    \A c \in Conns :
        h'[c].writes = h[c].writes + 1 =>
            /\ h[c].sleeps = h'[c].writes
            /\ h'[c].sleeps = h[c].sleeps
            /\ h'[c].buf # << >>
            /\ h'[c].buf[Len(h'[c].buf)] = h[c].resp[h'[c].writes]

\* C20: slowWrite sleeps before every byte of the response, the first byte
\* of the status line included, and paces the header block like the body:
\* the k-th byte is written with exactly k sleeps done, a slowWrite that ran
\* through has slept once for each byte of the response, and the first byte
\* of the document goes out after (header length + 1) sleeps.
C20_SleepBeforeEveryByte == []SleepsLead /\ [][SleepBeforeByte]_vars

C20_Witness ==
    /\ InSlowWrite(First)
    /\ h[First].pc = "flush"
    /\ h[First].writes = HeaderEnd(h[First].resp) + 1
    /\ h[First].sleeps = HeaderEnd(h[First].resp) + 1
    /\ h[First].buf = << limeric[1] >>
    /\ Len(conn[First].wire) = HeaderEnd(h[First].resp)

====
